---- MODULE Spec2Model ----
(***************************************************************************)
(* Model of the BVH asset code (code/AssetLib/BVH): the Buffer byte store  *)
(* with its encoded-region overlay, Accessor pointer resolution and data   *)
(* extraction, and the LazyDict object dictionaries of one Asset.          *)
(*                                                                         *)
(* size_t quantities are naturals; every input is drawn from the bounded   *)
(* sets below, so no size_t wrap-around occurs inside the model.           *)
(***************************************************************************)
EXTENDS Integers, Sequences, FiniteSets, TLC

VARIABLES
    byteLength,             \* Buffer::byteLength
    capacity,               \* Buffer::capacity
    mData,                  \* Buffer::mData: the allocated block, or null
    EncodedRegion_List,     \* Buffer::EncodedRegion_List
    EncodedRegion_Current,  \* Buffer::EncodedRegion_Current: 0 is nullptr, i > 0 is the i-th list element
    rawLength,              \* history: the number of raw bytes the operations have stored
    mDict,                  \* LazyDict::mDict of every dictionary
    mObjs,                  \* LazyDict::mObjs of every dictionary
    mObjsById,              \* LazyDict::mObjsById of every dictionary
    mUsedIds,               \* Asset::mUsedIds
    nodes,                  \* the ids materialized in Asset::nodes
    jointNames,             \* Skin::jointNames of the skin under export, as node ids
    inverseBindMatricesData,\* the matrices collected by ExportMeshes for that skin
    vertexJointData,        \* ExportSkin: joint index slots of every vertex
    vertexWeightData,       \* ExportSkin: weight slots of every vertex
    jointsPerVertex,        \* ExportSkin: influences recorded for every vertex
    jointNamesIndex,        \* ExportSkin: joint index of the bone in hand
    skinPc,                 \* ExportSkin: "idle", or "weights" inside the loop over the bones
    contributed,            \* history: the influences every vertex was given, in order
    firstOffset,            \* history: the offset matrix of the first bone seen with each name
    attributes,             \* Mesh::Primitive::attributes of the primitive being read
    nAttributes,            \* the members of its "attributes" object read so far
    scene,                  \* Asset::scene, as the id of the root object, or NoId
    written,                \* the manifest AssetWriter::WriteFile wrote last
    last                    \* history: the last operation and its outcome

bufVars  == <<byteLength, capacity, mData, EncodedRegion_List, EncodedRegion_Current, rawLength>>
dictVars == <<mDict, mObjs, mObjsById, mUsedIds>>
skinVars == <<nodes, jointNames, inverseBindMatricesData, vertexJointData, vertexWeightData,
              jointsPerVertex, jointNamesIndex, skinPc, contributed, firstOffset>>
vars     == <<byteLength, capacity, mData, EncodedRegion_List, EncodedRegion_Current, rawLength,
              mDict, mObjs, mObjsById, mUsedIds,
              nodes, jointNames, inverseBindMatricesData, vertexJointData, vertexWeightData,
              jointsPerVertex, jointNamesIndex, skinPc, contributed, firstOffset,
              attributes, nAttributes, scene, written, last>>
meshVars == <<attributes, nAttributes>>
loadVars == <<scene, written>>

\* What the operations of a Buffer, of the buffer dictionaries, and of the skin export leave alone
notBuffer == <<dictVars, skinVars, meshVars, loadVars>>
notDict   == <<bufVars, skinVars, meshVars, loadVars>>
notSkin   == <<bufVars, mDict, mObjs, mObjsById, meshVars, loadVars>>
notMesh   == <<bufVars, dictVars, skinVars, loadVars>>
notAsset  == <<bufVars, skinVars, meshVars>>

----------------------------------------------------------------------------
(* Bounds of the model *)

MaxByte    == 1   \* bytes are 0..MaxByte
MaxAmount  == 2   \* largest amount of Grow, largest data length of AppendData and ReplaceData
MaxBytes   == 3   \* operations that would take byteLength above this are not taken
MaxRegions == 1   \* at most this many regions are marked
MaxDecoded == 2   \* longest decoded array handed to EncodedRegion_Mark
MaxStream  == 2   \* longest stream handed to LoadFromStream
MaxOffset  == 2   \* largest byteOffset of an accessor and of a bufferView

Byte  == 0..MaxByte
\* The value of a byte that was never written (new uint8_t[n]) or that lies
\* outside the allocated block: reading it yields any value.
Indet == MaxByte + 1

SeqUpTo(S, n) == UNION {[1..k -> S] : k \in 0..n}
Max(a, b) == IF a >= b THEN a ELSE b
Min(a, b) == IF a <= b THEN a ELSE b

\* mData as a value: null, or a block of cells
NullData == [null |-> TRUE, bytes |-> <<>>]
Block(cells) == [null |-> FALSE, bytes |-> cells]

\* The byte at 0-based index i of a block; outside the block it is indeterminate.
Cell(cells, i) == IF i >= 0 /\ i < Len(cells) THEN cells[i + 1] ELSE Indet

RegionIds == {"r1", "r2"}

BufferState ==
    [byteLength |-> byteLength, capacity |-> capacity, mData |-> mData,
     EncodedRegion_List |-> EncodedRegion_List,
     EncodedRegion_Current |-> EncodedRegion_Current]

----------------------------------------------------------------------------
(* Buffer::Grow *)

GrowCapacity(cap, len, amount) == Max(cap + (cap \div 2), len + amount)

\* uint8_t *b = new uint8_t[capacity]; if (mData) memcpy(b, mData.get(), byteLength);
GrowDataNoCopy(data, len, newCap) == Block([i \in 1..newCap |-> Indet])
GrowData(data, len, newCap) ==
    Block([i \in 1..newCap |->
              IF ~data.null /\ i <= len THEN Cell(data.bytes, i - 1) ELSE Indet])

\* The buffer after Grow(amount), the path taken, and whether memcpy read
\* outside the old block.
GrowOp(b, amount) ==
    IF amount <= 0 THEN
        [buf |-> b, path |-> "none", oob |-> FALSE]
    ELSE IF b.capacity >= b.byteLength + amount THEN
        [buf |-> [b EXCEPT !.byteLength = b.byteLength + amount],
         path |-> "inplace", oob |-> FALSE]
    ELSE
        LET newCap == GrowCapacity(b.capacity, b.byteLength, amount) IN
        [buf |-> [b EXCEPT !.capacity = newCap,
                           !.mData = GrowData(b.mData, b.byteLength, newCap),
                           !.byteLength = b.byteLength + amount],
         path |-> "realloc",
         oob |-> ~b.mData.null /\ b.byteLength > Len(b.mData.bytes)]

\* memcpy(dst + offset, data, length) into the block: the cells inside the
\* block take the data, the bytes aimed outside it are not part of the block.
WriteAt(cells, offset, data) ==
    [i \in 1..Len(cells) |->
        IF i - 1 >= offset /\ i - 1 < offset + Len(data)
        THEN data[i - offset] ELSE cells[i]]

\* Buffer::AppendData
AppendDataOp(b, data) ==
    LET g == GrowOp(b, Len(data))
        offset == b.byteLength
        outside == Len(data) > 0 /\ (g.buf.mData.null \/ offset + Len(data) > Len(g.buf.mData.bytes))
    IN  [buf |-> IF g.buf.mData.null THEN g.buf
                 ELSE [g.buf EXCEPT !.mData = Block(WriteAt(g.buf.mData.bytes, offset, data))],
         ret |-> offset, path |-> g.path, oob |-> g.oob \/ outside]

----------------------------------------------------------------------------
(* Buffer::LoadFromStream.  The stream is at position 0 when the call      *)
(* starts; stream.Read(buf, size, 1) returns 1 when size > 0 bytes are     *)
(* left at the position, and 0 otherwise, having copied what was left.     *)

LoadLength(stream, length) == IF length # 0 THEN length ELSE Len(stream)

LoadFromStreamOp(b, stream, length, baseOffset) ==
    LET n == LoadLength(stream, length)
        pos == baseOffset
        avail == Max(0, Len(stream) - pos)
        cells == [i \in 1..n |-> IF i <= avail THEN stream[pos + i] ELSE Indet]
    IN  [buf |-> [b EXCEPT !.byteLength = n, !.mData = Block(cells)],
         ret |-> (n > 0 /\ avail >= n)]

----------------------------------------------------------------------------
(* Buffer::EncodedRegion_Mark and Buffer::EncodedRegion_SetCurrent *)

NullPtr == [null |-> TRUE, bytes |-> <<>>]
DecodedPtr(cells) == [null |-> FALSE, bytes |-> cells]

SEncodedRegion(pOffset, pEncodedData_Length, pDecodedData, pDecodedData_Length, pID) ==
    [Offset |-> pOffset, EncodedData_Length |-> pEncodedData_Length,
     DecodedData |-> pDecodedData.bytes, DecodedData_Length |-> pDecodedData_Length,
     ID |-> pID]

\* The checks without the one on the end of the encoded span
MarkRejectsNoLengthCheck(b, pOffset, pEncodedData_Length, pDecodedData) ==
    IF pDecodedData.null THEN "NullDecodedData"
    ELSE IF pOffset > b.byteLength THEN "BadOffset"
    ELSE "none"
\* The checks of EncodedRegion_Mark, in their order; "none" when all pass.
MarkRejects(b, pOffset, pEncodedData_Length, pDecodedData) ==
    IF pDecodedData.null THEN "NullDecodedData"
    ELSE IF pOffset > b.byteLength THEN "BadOffset"
    ELSE IF pOffset + pEncodedData_Length > b.byteLength THEN "OutOfRange"
    ELSE "none"

EncodedRegion_MarkOp(b, pOffset, pEncodedData_Length, pDecodedData, pDecodedData_Length, pID) ==
    LET err == MarkRejects(b, pOffset, pEncodedData_Length, pDecodedData) IN
    IF err # "none" THEN [buf |-> b, ok |-> FALSE, err |-> err]
    ELSE [buf |-> [b EXCEPT
                    !.EncodedRegion_List =
                        Append(b.EncodedRegion_List,
                               SEncodedRegion(pOffset, pEncodedData_Length, pDecodedData,
                                              pDecodedData_Length, pID)),
                    !.byteLength = b.byteLength + (pDecodedData_Length - pEncodedData_Length)],
          ok |-> TRUE, err |-> "none"]

\* The search that settles on the last region when no ID matches
FindRegionLast(list, pID) ==
    IF \E i \in 1..Len(list) : list[i].ID = pID
    THEN CHOOSE i \in 1..Len(list) :
            /\ list[i].ID = pID
            /\ \A j \in 1..Len(list) : list[j].ID = pID => j <= i
    ELSE Len(list)
\* for (reg : EncodedRegion_List) if (reg->ID == pID) { EncodedRegion_Current = reg; return; }
FindRegion(list, pID) ==
    IF \E i \in 1..Len(list) : list[i].ID = pID
    THEN CHOOSE i \in 1..Len(list) :
            /\ list[i].ID = pID
            /\ \A j \in 1..Len(list) : list[j].ID = pID => i <= j
    ELSE 0

EncodedRegion_SetCurrentOp(b, pID) ==
    IF b.EncodedRegion_Current # 0
       /\ b.EncodedRegion_List[b.EncodedRegion_Current].ID = pID
    THEN [buf |-> b, ok |-> TRUE, err |-> "none"]
    ELSE LET i == FindRegion(b.EncodedRegion_List, pID) IN
         IF i # 0
         THEN [buf |-> [b EXCEPT !.EncodedRegion_Current = i], ok |-> TRUE, err |-> "none"]
         ELSE [buf |-> b, ok |-> FALSE, err |-> "NotFound"]

----------------------------------------------------------------------------
(* Buffer::ReplaceData.  The three memcpy calls are applied in order to a  *)
(* new block of new_data_size cells.                                       *)

\* memcpy(dst + dstOff, src + srcOff, n) where dst is a block of cells and
\* src is the old data (null or a block)
CopyInto(dst, dstOff, src, srcOff, n) ==
    [i \in 1..Len(dst) |->
        IF i - 1 >= dstOff /\ i - 1 < dstOff + n
        THEN (IF src.null THEN Indet ELSE Cell(src.bytes, srcOff + (i - 1 - dstOff)))
        ELSE dst[i]]

\* The variant of the early return that accepts a null replacement pointer
ReplaceRejectsNullAccepted(pBufferData_Count, pReplace_Data, pReplace_Count) ==
    pBufferData_Count = 0 \/ pReplace_Count = 0
\* if ((pBufferData_Count == 0) || (pReplace_Count == 0) || (pReplace_Data == nullptr)) return false;
ReplaceRejects(pBufferData_Count, pReplace_Data, pReplace_Count) ==
    pBufferData_Count = 0 \/ pReplace_Count = 0 \/ pReplace_Data.null

ReplaceDataOp(b, pBufferData_Offset, pBufferData_Count, pReplace_Data, pReplace_Count) ==
    LET new_data_size == b.byteLength + pReplace_Count - pBufferData_Count IN
    IF ReplaceRejects(pBufferData_Count, pReplace_Data, pReplace_Count) THEN
        [buf |-> b, ret |-> FALSE, err |-> "none", oob |-> FALSE]
    ELSE IF new_data_size < 0 THEN
        \* the size_t wraps to a size no allocation can satisfy: new[] throws
        [buf |-> b, ret |-> FALSE, err |-> "bad_alloc", oob |-> FALSE]
    ELSE
        LET fresh == [i \in 1..new_data_size |-> Indet]
            c1 == CopyInto(fresh, 0, b.mData, 0, pBufferData_Offset)
            c2 == CopyInto(c1, pBufferData_Offset, pReplace_Data, 0, pReplace_Count)
            c3 == CopyInto(c2, pBufferData_Offset + pReplace_Count, b.mData,
                           pBufferData_Offset + pBufferData_Count, pBufferData_Offset)
            srcLen == IF b.mData.null THEN 0 ELSE Len(b.mData.bytes)
            outside ==
                \/ pBufferData_Offset > 0 /\ (pBufferData_Offset > srcLen \/ pBufferData_Offset > new_data_size)
                \/ pBufferData_Offset + pReplace_Count > new_data_size
                \/ pBufferData_Offset > 0
                   /\ (pBufferData_Offset + pBufferData_Count + pBufferData_Offset > srcLen
                       \/ pBufferData_Offset + pReplace_Count + pBufferData_Offset > new_data_size)
        IN  [buf |-> [b EXCEPT !.mData = Block(c3), !.byteLength = new_data_size],
             ret |-> TRUE, err |-> "none", oob |-> outside]

----------------------------------------------------------------------------
(* Accessor::GetPointer and Accessor::ExtractData.  An accessor is         *)
(* [hasBufferView, hasBuffer, byteOffset, viewOffset, viewLength,          *)
(*  byteStride, numComponents, bytesPerComponent, count]; its bufferView's *)
(* buffer, when set, is the buffer of this model.                          *)

NullPointer == [base |-> "null", region |-> 0, off |-> 0]
RawPointer(off) == [base |-> "raw", region |-> 0, off |-> off]
DecodedPointer(region, off) == [base |-> "decoded", region |-> region, off |-> off]

GetPointerIgnoringRegion(b, acc) ==
    IF ~acc.hasBufferView \/ ~acc.hasBuffer THEN NullPointer
    ELSE IF b.mData.null THEN NullPointer
    ELSE RawPointer(acc.byteOffset + acc.viewOffset)
GetPointerEncodedLength(b, acc) ==
    IF ~acc.hasBufferView \/ ~acc.hasBuffer THEN NullPointer
    ELSE IF b.mData.null THEN NullPointer
    ELSE
        LET offset == acc.byteOffset + acc.viewOffset IN
        IF b.EncodedRegion_Current # 0
           /\ offset >= b.EncodedRegion_List[b.EncodedRegion_Current].Offset
           /\ offset < b.EncodedRegion_List[b.EncodedRegion_Current].Offset
                        + b.EncodedRegion_List[b.EncodedRegion_Current].EncodedData_Length
        THEN DecodedPointer(b.EncodedRegion_Current,
                            offset - b.EncodedRegion_List[b.EncodedRegion_Current].Offset)
        ELSE RawPointer(offset)
GetPointer(b, acc) ==
    IF ~acc.hasBufferView \/ ~acc.hasBuffer THEN NullPointer
    ELSE IF b.mData.null THEN NullPointer
    ELSE
        LET offset == acc.byteOffset + acc.viewOffset IN
        IF b.EncodedRegion_Current # 0
           /\ offset >= b.EncodedRegion_List[b.EncodedRegion_Current].Offset
           /\ offset < b.EncodedRegion_List[b.EncodedRegion_Current].Offset
                        + b.EncodedRegion_List[b.EncodedRegion_Current].DecodedData_Length
        THEN DecodedPointer(b.EncodedRegion_Current,
                            offset - b.EncodedRegion_List[b.EncodedRegion_Current].Offset)
        ELSE RawPointer(offset)

\* The byte found i bytes past a pointer
Deref(b, ptr, i) ==
    IF ptr.base = "raw" THEN Cell(b.mData.bytes, ptr.off + i)
    ELSE Cell(b.EncodedRegion_List[ptr.region].DecodedData, ptr.off + i)

GetElementSize(acc) == acc.numComponents * acc.bytesPerComponent

\* ExtractData<T> with sizeof(T) = targetElemSize: element i of the result is
\* targetElemSize cells, of which the first elemSize are copied.
ExtractData(b, acc, targetElemSize) ==
    LET data == GetPointer(b, acc)
        elemSize == GetElementSize(acc)
        stride == IF acc.byteStride # 0 THEN acc.byteStride ELSE elemSize
    IN  IF data.base = "null" THEN [ok |-> FALSE, outData |-> <<>>]
        ELSE [ok |-> TRUE,
              outData |-> [i \in 1..acc.count |->
                              [k \in 1..targetElemSize |->
                                  IF k <= elemSize
                                  THEN Deref(b, data, (i - 1) * stride + (k - 1))
                                  ELSE Indet]]]

----------------------------------------------------------------------------
(* The Buffer operations as actions.  last keeps the operation and its     *)
(* outcome; the state before the step is the unprimed state of the step.   *)

SetBuffer(b) ==
    /\ byteLength' = b.byteLength
    /\ capacity' = b.capacity
    /\ mData' = b.mData
    /\ EncodedRegion_List' = b.EncodedRegion_List
    /\ EncodedRegion_Current' = b.EncodedRegion_Current

Grow(amount) ==
    /\ byteLength + amount <= MaxBytes
    /\ LET r == GrowOp(BufferState, amount) IN
        /\ SetBuffer(r.buf)
        /\ rawLength' = rawLength + amount
        /\ last' = [op |-> "Grow", path |-> r.path, oob |-> r.oob]
    /\ UNCHANGED notBuffer

AppendData(data) ==
    /\ byteLength + Len(data) <= MaxBytes
    /\ LET r == AppendDataOp(BufferState, data) IN
        /\ SetBuffer(r.buf)
        /\ rawLength' = rawLength + Len(data)
        /\ last' = [op |-> "AppendData", ret |-> r.ret, path |-> r.path, oob |-> r.oob]
    /\ UNCHANGED notBuffer

LoadFromStream(stream, length, baseOffset) ==
    /\ LET r == LoadFromStreamOp(BufferState, stream, length, baseOffset) IN
        /\ SetBuffer(r.buf)
        /\ rawLength' = r.buf.byteLength
        /\ last' = [op |-> "LoadFromStream", loaded |-> r.ret]
    /\ UNCHANGED notBuffer

EncodedRegion_Mark(pOffset, pEncodedData_Length, pDecodedData, pID) ==
    /\ Len(EncodedRegion_List) < MaxRegions
    /\ LET pDecodedData_Length == Len(pDecodedData.bytes)
           r == EncodedRegion_MarkOp(BufferState, pOffset, pEncodedData_Length, pDecodedData,
                                     pDecodedData_Length, pID) IN
        /\ r.buf.byteLength <= MaxBytes
        /\ SetBuffer(r.buf)
        /\ rawLength' = rawLength
        /\ last' = [op |-> "EncodedRegion_Mark", ok |-> r.ok, err |-> r.err]
    /\ UNCHANGED notBuffer

EncodedRegion_SetCurrent(pID) ==
    /\ LET r == EncodedRegion_SetCurrentOp(BufferState, pID) IN
        /\ SetBuffer(r.buf)
        /\ rawLength' = rawLength
        /\ last' = [op |-> "EncodedRegion_SetCurrent", ok |-> r.ok, err |-> r.err]
    /\ UNCHANGED notBuffer

ReplaceData(pBufferData_Offset, pBufferData_Count, pReplace_Data, pReplace_Count) ==
    /\ LET r == ReplaceDataOp(BufferState, pBufferData_Offset, pBufferData_Count,
                              pReplace_Data, pReplace_Count) IN
        /\ r.buf.byteLength <= MaxBytes
        /\ SetBuffer(r.buf)
        /\ rawLength' = IF r.ret THEN rawLength + pReplace_Count - pBufferData_Count
                        ELSE rawLength
        /\ last' = [op |-> "ReplaceData", replaced |-> r.ret, err |-> r.err, oob |-> r.oob]
    /\ UNCHANGED notBuffer

\* An accessor of single bytes, as far as GetPointer reads it
PointerAccessor(hasBufferView, hasBuffer, byteOffset, viewOffset) ==
    [hasBufferView |-> hasBufferView, hasBuffer |-> hasBuffer, byteOffset |-> byteOffset,
     viewOffset |-> viewOffset, viewLength |-> 0, byteStride |-> 0,
     numComponents |-> 1, bytesPerComponent |-> 1, count |-> 0]

CallGetPointer(acc) ==
    /\ last' = [op |-> "GetPointer", ptr |-> GetPointer(BufferState, acc)]
    /\ UNCHANGED bufVars
    /\ UNCHANGED notBuffer

\* The decoded arrays handed to EncodedRegion_Mark: null, or n bytes 1,0,1,...
DecodedInputs == {NullPtr} \cup {DecodedPtr([i \in 1..n |-> i % 2]) : n \in 0..MaxDecoded}
ReplaceInputs == {NullPtr} \cup {DecodedPtr(s) : s \in SeqUpTo(Byte, MaxAmount)}
\* The counts handed over with a replacement: the length of the array, any count with a null pointer
ReplaceCounts(pReplace_Data) ==
    IF pReplace_Data.null THEN 0..MaxAmount ELSE {Len(pReplace_Data.bytes)}
PointerInputs ==
    {PointerAccessor(FALSE, FALSE, 0, 0), PointerAccessor(TRUE, FALSE, 0, 0)}
    \cup {PointerAccessor(TRUE, TRUE, o, v) : o \in 0..MaxOffset, v \in 0..1}

\* The operations on the raw store
Next ==
    \/ \E amount \in 0..MaxAmount : Grow(amount)
    \/ \E data \in SeqUpTo(Byte, MaxAmount) : AppendData(data)
    \/ \E stream \in SeqUpTo(Byte, MaxStream), length \in 0..MaxStream, baseOffset \in 0..1 :
          LoadFromStream(stream, length, baseOffset)
    \/ \E pBufferData_Offset \in 0..MaxBytes, pBufferData_Count \in 0..MaxAmount,
          pReplace_Data \in ReplaceInputs :
          \E pReplace_Count \in ReplaceCounts(pReplace_Data) :
              ReplaceData(pBufferData_Offset, pBufferData_Count, pReplace_Data, pReplace_Count)

\* The streams of the region specification hold zero bytes only
ZeroStreams == {[i \in 1..n |-> 0] : n \in 0..MaxStream}

\* The operations of the encoded-region overlay, on a store that is loaded and grown
NextRegion ==
    \/ \E amount \in 0..MaxAmount : Grow(amount)
    \/ \E stream \in ZeroStreams, length \in 0..MaxStream, baseOffset \in 0..1 :
          LoadFromStream(stream, length, baseOffset)
    \/ \E pOffset \in 0..MaxBytes, pEncodedData_Length \in 0..MaxAmount,
          pDecodedData \in DecodedInputs, pID \in RegionIds :
          EncodedRegion_Mark(pOffset, pEncodedData_Length, pDecodedData, pID)
    \/ \E pID \in RegionIds : EncodedRegion_SetCurrent(pID)
    \/ \E acc \in PointerInputs : CallGetPointer(acc)

InitBuffer ==
    /\ byteLength = 0
    /\ capacity = 0
    /\ mData = NullData
    /\ EncodedRegion_List = <<>>
    /\ EncodedRegion_Current = 0
    /\ rawLength = 0

----------------------------------------------------------------------------
(* LazyDict<T> and the Asset's used-id set.  The dictionaries are those of *)
(* BufferView and Buffer; BufferView::Read resolves its "buffer" member    *)
(* through the buffers dictionary.  A manifest section maps every id to a  *)
(* member: absent, a value that is no JSON object, or a JSON object with   *)
(* the members Read looks at.                                              *)

Dicts == {"bufferViews", "buffers"}
Ids   == {"a", "b"}
NoId  == "<null>"      \* const char* 0: the member is absent
MaxStated == 1         \* largest "byteLength" stated by a buffer object of the manifest
MaxMembers == 1        \* a manifest section holds at most this many members

Absent    == [kind |-> "absent", ref |-> NoId, byteLength |-> 0]
NotObject == [kind |-> "notobject", ref |-> NoId, byteLength |-> 0]
Object(ref, len) == [kind |-> "object", ref |-> ref, byteLength |-> len]

\* The dictionaries of Node, for the objects that refer to objects of their
\* own kind: Node::Read resolves a child through the nodes dictionary
NodeDicts == {"nodes"}
NoDict == "<none>"
\* The dictionary through which T::Read of dictionary d resolves the reference
\* of its object, NoDict when it resolves none
RefDict(d) ==
    IF d = "bufferViews" THEN "buffers"
    ELSE IF d = "nodes" THEN "nodes"
    ELSE NoDict

\* The members a section of dictionary d can hold for one id
Members(d) ==
    {Absent, NotObject}
    \cup (IF RefDict(d) # NoDict
          THEN {Object(ref, 0) : ref \in Ids \cup {NoId}}
          ELSE {Object(NoId, len) : len \in 0..MaxStated})

NullSection == [attached |-> FALSE, members |-> [id \in Ids |-> Absent]]
Section(members) == [attached |-> TRUE, members |-> members]
\* What FindObject(doc, mDictId) can yield for dictionary d: 0 or a section
Sections(d) ==
    {NullSection}
    \cup {Section(m) : m \in {f \in [Ids -> Members(d)] :
                                 Cardinality({id \in Ids : f[id].kind # "absent"}) <= MaxMembers}}

AssetState ==
    [mDict |-> mDict, mObjs |-> mObjs, mObjsById |-> mObjsById, mUsedIds |-> mUsedIds]

\* T *inst = new T(): a BufferView has a null buffer Ref, a Buffer has byteLength 0.
\* ref is the index in the buffers dictionary the Ref points at, 0 for a null Ref;
\* backed tells whether the object was read from the manifest.
NewObject(id) == [id |-> id, ref |-> 0, byteLength |-> 0, backed |-> FALSE]

\* T::TranslateId
TranslateId(d, id) == id

\* mObjsById.find(id) != mObjsById.end(); the map holds 0 for an id it lacks
FoundWhenAttached(A, d, id) == A.mDict[d].attached /\ A.mObjsById[d][id] # 0
Found(A, d, id) == A.mObjsById[d][id] # 0

\* The checks of Get on the manifest section, in their order; "none" when all pass
SectionErrorObjectFirst(A, d, id) ==
    IF A.mDict[d].members[id].kind = "absent" THEN "MissingObject"
    ELSE IF ~A.mDict[d].attached THEN "MissingSection"
    ELSE IF A.mDict[d].members[id].kind # "object" THEN "MalformedObject"
    ELSE "none"
SectionError(A, d, id) ==
    IF ~A.mDict[d].attached THEN "MissingSection"
    ELSE IF A.mDict[d].members[id].kind = "absent" THEN "MissingObject"
    ELSE IF A.mDict[d].members[id].kind # "object" THEN "MalformedObject"
    ELSE "none"

\* LazyDict<T>::Add
AddOp(A, d, obj) ==
    LET idx == Len(A.mObjs[d]) + 1 IN
    [A |-> [A EXCEPT !.mObjs[d] = Append(A.mObjs[d], obj),
                     !.mObjsById[d][obj.id] = idx,
                     !.mUsedIds = A.mUsedIds \cup {obj.id}],
     idx |-> idx]

RECURSIVE GetOp(_, _, _)
RECURSIVE ReadOp(_, _, _, _)

\* LazyDict<T>::Get(const char *id): the asset afterwards, whether it returned,
\* the error thrown, the index of the object the Ref names, and whether the
\* object was found already created
GetOp(A, d, id0) ==
    LET id == TranslateId(d, id0) IN
    IF Found(A, d, id) THEN
        [A |-> A, ok |-> TRUE, err |-> "none", idx |-> A.mObjsById[d][id], hit |-> TRUE]
    ELSE IF SectionError(A, d, id) # "none" THEN
        [A |-> A, ok |-> FALSE, err |-> SectionError(A, d, id), idx |-> 0, hit |-> FALSE]
    ELSE
        LET inst == [NewObject(id) EXCEPT !.backed = TRUE]
            r == ReadOp(A, d, inst, A.mDict[d].members[id])
        IN  IF ~r.ok THEN [A |-> r.A, ok |-> FALSE, err |-> r.err, idx |-> 0, hit |-> FALSE]
            ELSE LET added == AddOp(r.A, d, r.inst) IN
                 [A |-> added.A, ok |-> TRUE, err |-> "none", idx |-> added.idx, hit |-> FALSE]

\* BufferView::Read, Node::Read (of its child) and Buffer::Read (of a buffer
\* object without "uri")
ReadOp(A, d, inst, obj) ==
    IF RefDict(d) # NoDict THEN
        IF obj.ref # NoId THEN
            LET g == GetOp(A, RefDict(d), obj.ref) IN
            [A |-> g.A, ok |-> g.ok, err |-> g.err, inst |-> [inst EXCEPT !.ref = g.idx]]
        ELSE [A |-> A, ok |-> TRUE, err |-> "none", inst |-> inst]
    ELSE
        IF obj.byteLength > 0
        THEN [A |-> A, ok |-> FALSE, err |-> "MissingUri", inst |-> inst]
        ELSE [A |-> A, ok |-> TRUE, err |-> "none",
              inst |-> [inst EXCEPT !.byteLength = obj.byteLength]]

\* mAsset.mUsedIds.find(id) != mAsset.mUsedIds.end()
CreateRejectsOwnDict(A, d, id) == A.mObjsById[d][id] # 0
CreateRejects(A, d, id) == id \in A.mUsedIds

\* LazyDict<T>::Create
CreateOp(A, d, id) ==
    IF CreateRejects(A, d, id)
    THEN [A |-> A, ok |-> FALSE, err |-> "DuplicateId", idx |-> 0]
    ELSE LET added == AddOp(A, d, NewObject(id)) IN
         [A |-> added.A, ok |-> TRUE, err |-> "none", idx |-> added.idx]

SetAsset(A) ==
    /\ mDict' = A.mDict
    /\ mObjs' = A.mObjs
    /\ mObjsById' = A.mObjsById
    /\ mUsedIds' = A.mUsedIds

\* Get(id) is entered again for an id whose Read is still running: the id is
\* not in mObjsById before Read returns, so the nested call creates and reads
\* the object once more, and so on without end.  inProgress holds the objects
\* whose Read is running; the asset is as it was when the outermost Get began,
\* since nothing is added before the innermost Read returns.
RECURSIVE Diverges(_, _, _, _)
Diverges(A, d, id, inProgress) ==
    IF Found(A, d, TranslateId(d, id)) \/ SectionError(A, d, TranslateId(d, id)) # "none"
    THEN FALSE
    ELSE IF <<d, id>> \in inProgress THEN TRUE
    ELSE LET obj == A.mDict[d].members[TranslateId(d, id)] IN
         IF RefDict(d) # NoDict /\ obj.ref # NoId
         THEN Diverges(A, RefDict(d), obj.ref, inProgress \cup {<<d, id>>})
         ELSE FALSE

\* dict.Get(id).  A recursion without end uses up the stack: the call does
\* not return and nothing is registered.
Get(d, id) ==
    /\ IF Diverges(AssetState, d, id, {})
       THEN /\ UNCHANGED <<mDict, mObjs, mObjsById, mUsedIds>>
            /\ last' = [op |-> "Get", ok |-> FALSE, err |-> "StackOverflow", idx |-> 0,
                        hit |-> FALSE]
       ELSE LET r == GetOp(AssetState, d, id) IN
            /\ SetAsset(r.A)
            /\ last' = [op |-> "Get", ok |-> r.ok, err |-> r.err, idx |-> r.idx, hit |-> r.hit]
    /\ UNCHANGED notDict

Create(d, id) ==
    /\ LET r == CreateOp(AssetState, d, id) IN
        /\ SetAsset(r.A)
        /\ last' = [op |-> "Create", dict |-> d, id |-> id, ok |-> r.ok, err |-> r.err,
                    idx |-> r.idx]
    /\ UNCHANGED notDict

\* LazyDict<T>::AttachToDocument for a dictionary without extension id: the
\* container is the document, and section is what FindObject finds in it
AttachToDocument(d, section) ==
    /\ mDict' = [mDict EXCEPT ![d] = section]
    /\ last' = [op |-> "AttachToDocument"]
    /\ UNCHANGED <<mObjs, mObjsById, mUsedIds>>
    /\ UNCHANGED notDict

DetachFromDocument(d) ==
    /\ mDict' = [mDict EXCEPT ![d] = NullSection]
    /\ last' = [op |-> "DetachFromDocument"]
    /\ UNCHANGED <<mObjs, mObjsById, mUsedIds>>
    /\ UNCHANGED notDict

NextDict ==
    \/ \E d \in Dicts, id \in Ids : Get(d, id)
    \/ \E d \in Dicts, id \in Ids : Create(d, id)
    \/ \E d \in Dicts : \E section \in Sections(d) : AttachToDocument(d, section)
    \/ \E d \in Dicts : DetachFromDocument(d)

\* What FindObject can yield for the nodes dictionary
NodeSections ==
    {NullSection} \cup {Section(m) : m \in [Ids -> Members("nodes")]}

\* Node objects that name each other, resolved through the nodes dictionary
NextCycle ==
    \/ \E id \in Ids : Get("nodes", id)
    \/ \E section \in NodeSections : AttachToDocument("nodes", section)
    \/ DetachFromDocument("nodes")

\* An asset of which only the nodes dictionary is looked at
InitNodes ==
    /\ mDict = [d \in NodeDicts |-> NullSection]
    /\ mObjs = [d \in NodeDicts |-> <<>>]
    /\ mObjsById = [d \in NodeDicts |-> [id \in Ids |-> 0]]
    /\ mUsedIds = {}

InitDict ==
    /\ mDict = [d \in Dicts |-> NullSection]
    /\ mObjs = [d \in Dicts |-> <<>>]
    /\ mObjsById = [d \in Dicts |-> [id \in Ids |-> 0]]
    /\ mUsedIds = {}

----------------------------------------------------------------------------
(* Asset::Load of a manifest that is not binary, AssetWriter and           *)
(* AssetWriter::WriteFile.  A size_t length is the pair [hi, lo] that      *)
(* stands for hi * 2^16 + lo.  A manifest file is what Load looks at: does *)
(* it open, its length, can it be read in full, does it parse, is its root *)
(* an object, is its metadata readable, its sections and "scene" member.   *)

Half == 2 ^ 16
SizeT(hi, lo) == [hi |-> hi, lo |-> lo]
SizeLess(a, b) == a.hi < b.hi \/ (a.hi = b.hi /\ a.lo < b.lo)
\* std::numeric_limits<uint32_t>::max()
UINT32_MAX == SizeT(Half - 1, Half - 1)
\* 2^32, the first length of 4 GiB
FourGiB == SizeT(Half, 0)

LengthInputs ==
    {SizeT(0, 0), SizeT(0, 1), SizeT(0, 2), SizeT(0, 3),
     SizeT(Half - 1, Half - 2), SizeT(Half - 1, Half - 1), SizeT(Half, 0), SizeT(Half, 1)}

\* The two checks of mSceneLength, in their order
LengthError(mSceneLength) ==
    IF SizeLess(mSceneLength, SizeT(0, 2)) THEN "NoJSON"
    ELSE IF ~SizeLess(mSceneLength, UINT32_MAX) THEN "TooLarge"
    ELSE "none"

Manifest(opens, length, readable, parse, assetOk, sections, sceneId) ==
    [opens |-> opens, length |-> length, readable |-> readable, parse |-> parse,
     assetOk |-> assetOk, sections |-> sections, scene |-> sceneId]

NoSections == [d \in Dicts |-> NullSection]
\* A manifest that passes every check up to the metadata
GoodManifest(sections, sceneId) ==
    Manifest(TRUE, SizeT(0, 2), TRUE, "ok", TRUE, sections, sceneId)

LoadInputs ==
    {Manifest(FALSE, SizeT(0, 2), TRUE, "ok", TRUE, NoSections, NoId)}
    \cup {Manifest(TRUE, length, TRUE, "ok", TRUE, NoSections, NoId) : length \in LengthInputs}
    \cup {Manifest(TRUE, SizeT(0, 2), FALSE, "ok", TRUE, NoSections, NoId)}
    \cup {Manifest(TRUE, SizeT(0, 2), TRUE, parse, TRUE, NoSections, NoId) :
             parse \in {"error", "notobject"}}
    \cup {Manifest(TRUE, SizeT(0, 2), TRUE, "ok", FALSE, NoSections, NoId)}
    \cup {GoodManifest(sections, sceneId) :
             sections \in {f \in [Dicts -> UNION {Sections(d) : d \in Dicts}] :
                              \A d \in Dicts : f[d] \in Sections(d)},
             sceneId \in Ids \cup {NoId}}

\* The dictionary at the head of the reference chain of this model.  The
\* dictionaries before it (scenes, nodes, meshes, accessors) hand an id on in
\* the way bufferViews hands one on to buffers.
RootDict == "bufferViews"
\* scenes.Get(curScene->GetString())
scenes_Get(A, id) == GetOp(A, RootDict, id)

\* for (i < mDicts.size()) mDicts[i]->DetachFromDocument();
DetachAll(A) == [A EXCEPT !.mDict = [d \in Dicts |-> NullSection]]

\* Asset::Load: the asset and Asset::scene afterwards, the error thrown
\* ("none" for a return), and whether the return was the early one
LoadOp(A, sc, m) ==
    IF ~m.opens THEN [A |-> A, scene |-> sc, err |-> "CouldNotOpen", early |-> FALSE]
    ELSE IF LengthError(m.length) # "none"
    THEN [A |-> A, scene |-> sc, err |-> LengthError(m.length), early |-> FALSE]
    ELSE IF ~m.readable THEN [A |-> A, scene |-> sc, err |-> "CouldNotRead", early |-> FALSE]
    ELSE IF m.parse = "error" THEN [A |-> A, scene |-> sc, err |-> "ParseError", early |-> FALSE]
    ELSE IF m.parse = "notobject" THEN [A |-> A, scene |-> sc, err |-> "NotObject", early |-> FALSE]
    ELSE IF ~m.assetOk THEN [A |-> A, scene |-> sc, err |-> "none", early |-> TRUE]
    ELSE
        LET attached == [A EXCEPT !.mDict = [d \in Dicts |-> m.sections[d]]] IN
        IF m.scene = NoId
        THEN [A |-> DetachAll(attached), scene |-> sc, err |-> "none", early |-> FALSE]
        ELSE LET g == scenes_Get(attached, m.scene) IN
             IF ~g.ok THEN [A |-> g.A, scene |-> sc, err |-> g.err, early |-> FALSE]
             ELSE [A |-> DetachAll(g.A), scene |-> m.scene, err |-> "none", early |-> FALSE]

\* LazyDict<T>::WriteObjects and Write(Value&, T&, AssetWriter&): the section
\* written for dictionary d, none for a dictionary without objects.  junk is
\* the string that reading the id through a null Ref yields.
WrittenSection(A, d, junk) ==
    IF A.mObjs[d] = <<>> THEN NullSection
    ELSE Section([id \in Ids |->
            IF A.mObjsById[d][id] = 0 THEN Absent
            ELSE LET obj == A.mObjs[d][A.mObjsById[d][id]] IN
                 IF d = "bufferViews"
                 THEN Object(IF obj.ref = 0 THEN junk ELSE A.mObjs["buffers"][obj.ref].id, 0)
                 ELSE Object(NoId, obj.byteLength)])

\* Write(Value&, BufferView&, AssetWriter&) reads bv.buffer->id of every bufferView
WriterDerefsNull(A) ==
    \E i \in 1..Len(A.mObjs["bufferViews"]) : A.mObjs["bufferViews"][i].ref = 0

NoManifest == [valid |-> FALSE, doc |-> GoodManifest(NoSections, NoId), ids |-> {}]
\* AssetWriter::AssetWriter and WriteFile: the manifest file and the ids it holds
WriteOp(A, sc, junk) ==
    [valid |-> TRUE,
     doc |-> GoodManifest([d \in Dicts |-> WrittenSection(A, d, junk)], sc),
     ids |-> UNION {{A.mObjs[d][i].id : i \in 1..Len(A.mObjs[d])} : d \in Dicts}]

\* Asset::Asset: a new asset takes the place of the one at hand
NewAsset ==
    /\ mDict' = [d \in Dicts |-> NullSection]
    /\ mObjs' = [d \in Dicts |-> <<>>]
    /\ mObjsById' = [d \in Dicts |-> [id \in Ids |-> 0]]
    /\ mUsedIds' = {}
    /\ scene' = NoId
    /\ last' = [op |-> "NewAsset"]
    /\ UNCHANGED written
    /\ UNCHANGED notAsset

Load(m) ==
    /\ LET r == LoadOp(AssetState, scene, m) IN
        /\ SetAsset(r.A)
        /\ scene' = r.scene
        /\ last' = [op |-> "Load", err |-> r.err, early |-> r.early]
    /\ UNCHANGED written
    /\ UNCHANGED notAsset

\* AssetWriter(asset).WriteFile(path).  Reading bv.buffer->id through a null
\* Ref is undefined: the run stops with nothing written, or goes on with
\* whatever string it finds there.
WriteFile ==
    /\ IF WriterDerefsNull(AssetState)
       THEN /\ \/ written' = written
               \/ \E junk \in Ids : written' = WriteOp(AssetState, scene, junk)
            /\ last' = [op |-> "WriteFile", derefNull |-> TRUE]
       ELSE /\ written' = WriteOp(AssetState, scene, NoId)
            /\ last' = [op |-> "WriteFile", derefNull |-> FALSE]
    /\ UNCHANGED <<dictVars, scene>>
    /\ UNCHANGED notAsset

\* Loading manifests of every kind
NextLoad ==
    \/ \E m \in LoadInputs : Load(m)
    \/ NewAsset

\* Building an asset, writing it, and loading what was written
NextRoundTrip ==
    \/ \E d \in Dicts, id \in Ids : Create(d, id)
    \/ WriteFile
    \/ NewAsset
    \/ written.valid /\ Load(written.doc)

InitLoad ==
    /\ scene = NoId
    /\ written = NoManifest

----------------------------------------------------------------------------
(* Buffer::Read.  The "uri" member of the buffer object is absent, a       *)
(* base64 data-URI, a raw data-URI, or the name of a local file.  A        *)
(* data-URI is held as the bytes of its payload; a local file is the       *)
(* stream OpenFile gives, or no stream.                                    *)

NoUri == [kind |-> "none", payload |-> <<>>, opens |-> FALSE]
Base64Uri(payload) == [kind |-> "base64", payload |-> payload, opens |-> FALSE]
RawUri(payload) == [kind |-> "raw", payload |-> payload, opens |-> FALSE]
FileUri(stream, opens) == [kind |-> "file", payload |-> stream, opens |-> opens]

\* Base64::Decode(dataURI.data, dataURI.dataLength, data): the length of the
\* payload, and the block it allocates for it (none for an empty payload)
Base64_DecodeLength(payload) == Len(payload)
Base64_DecodeData(payload) == IF Len(payload) = 0 THEN NullData ELSE Block(payload)

\* if (statedLength > 0 && this->byteLength != statedLength)
Base64Mismatch(statedLength, decodedLength) ==
    statedLength > 0 /\ decodedLength # statedLength

\* The buffer after Read and the error thrown, "none" for a normal return
BufferReadOp(b, statedLength, uri) ==
    LET b0 == [b EXCEPT !.byteLength = statedLength] IN
    IF uri.kind = "none" THEN
        [buf |-> b0, err |-> IF statedLength > 0 THEN "MissingUri" ELSE "none"]
    ELSE IF uri.kind = "base64" THEN
        LET b1 == [b0 EXCEPT !.byteLength = Base64_DecodeLength(uri.payload),
                             !.mData = Base64_DecodeData(uri.payload)] IN
        [buf |-> b1,
         err |-> IF Base64Mismatch(statedLength, b1.byteLength) THEN "LengthMismatch" ELSE "none"]
    ELSE IF uri.kind = "raw" THEN
        IF statedLength # Len(uri.payload) THEN [buf |-> b0, err |-> "LengthMismatch"]
        ELSE [buf |-> [b0 EXCEPT !.mData = Block(uri.payload)], err |-> "none"]
    ELSE \* local file
        IF b0.byteLength > 0 THEN
            IF uri.opens THEN
                LET r == LoadFromStreamOp(b0, uri.payload, b0.byteLength, 0) IN
                [buf |-> r.buf, err |-> IF r.ret THEN "none" ELSE "ReadError"]
            ELSE [buf |-> b0, err |-> "OpenError"]
        ELSE [buf |-> b0, err |-> "none"]

UriInputs ==
    {NoUri}
    \cup {Base64Uri(payload) : payload \in SeqUpTo(Byte, MaxStream)}
    \cup {RawUri(payload) : payload \in SeqUpTo(Byte, MaxStream)}
    \cup {FileUri(stream, TRUE) : stream \in SeqUpTo(Byte, MaxStream)}
    \cup {FileUri(<<>>, FALSE)}

Read(statedLength, uri) ==
    /\ LET r == BufferReadOp(BufferState, statedLength, uri) IN
        /\ SetBuffer(r.buf)
        /\ rawLength' = r.buf.byteLength
        /\ last' = [op |-> "Read", err |-> r.err, kind |-> uri.kind]
    /\ UNCHANGED notBuffer

\* Buffer::Read on a buffer object of the manifest, and growth of what was read
NextRead ==
    \/ \E statedLength \in 0..MaxStream, uri \in UriInputs : Read(statedLength, uri)
    \/ \E amount \in 0..MaxAmount : Grow(amount)

----------------------------------------------------------------------------
(* ExportSkin (BVHExporter.cpp), one step per bone and per vertex weight.  *)
(* A bone is its name and offset matrix; a weight is (mVertexId, mWeight). *)
(* Weights are counted in tenths; matrices are named by numbers.           *)

NumVerts      == 2   \* aimesh->mNumVertices
MaxWeight     == 2   \* weights are 1..MaxWeight
MaxInfluences == 5   \* vertex weights of one mesh, over all its bones
MaxMatrix     == 2   \* offset matrices are 1..MaxMatrix

Verts == 0..(NumVerts - 1)
Zero4 == [j \in 0..3 |-> 0]

\* The search that never finds the name
FindJointNever(names, name) == -1
\* The search of ExportSkin through skinRef->jointNames, which runs to the end
\* of the list: the index of the last entry with the name, or -1
FindJoint(names, name) ==
    IF \E i \in 1..Len(names) : names[i] = name
    THEN (CHOOSE i \in 1..Len(names) :
             /\ names[i] = name
             /\ \A j \in 1..Len(names) : names[j] = name => j <= i) - 1
    ELSE -1

\* jointNamesIndex = inverseBindMatricesData.size() - 1
AddedJointIndex(names, matrices) == Len(matrices) - 1

\* The guard on the fifth influence moved by one
SlotFreeUpToFour(n) == ~(n > 4)
\* if (jointsPerVertex[vertexId] > 3) continue;
SlotFree(n) == ~(n > 3)

\* The number of vertex weights the bones of the mesh have brought so far
RECURSIVE Influences(_)
Influences(vs) ==
    IF vs = {} THEN 0
    ELSE LET v == CHOOSE x \in vs : TRUE IN Len(contributed[v]) + Influences(vs \ {v})

\* mAsset.nodes.Create(id)
CreateNode(id) ==
    /\ skinPc = "idle"
    /\ IF id \in mUsedIds
       THEN /\ UNCHANGED <<nodes, mUsedIds>>
            /\ last' = [op |-> "CreateNode", ok |-> FALSE]
       ELSE /\ nodes' = nodes \cup {id}
            /\ mUsedIds' = mUsedIds \cup {id}
            /\ last' = [op |-> "CreateNode", ok |-> TRUE]
    /\ UNCHANGED <<jointNames, inverseBindMatricesData, vertexJointData, vertexWeightData,
                   jointsPerVertex, jointNamesIndex, skinPc, contributed, firstOffset>>
    /\ UNCHANGED notSkin

\* ExportSkin entered for a mesh with bones: the three arrays are allocated and zeroed
ExportSkin_Begin ==
    /\ skinPc = "idle"
    /\ vertexJointData' = [v \in Verts |-> Zero4]
    /\ vertexWeightData' = [v \in Verts |-> Zero4]
    /\ jointsPerVertex' = [v \in Verts |-> 0]
    /\ contributed' = [v \in Verts |-> <<>>]
    /\ jointNamesIndex' = 0
    /\ skinPc' = "bones"
    /\ last' = [op |-> "ExportSkin_Begin"]
    /\ UNCHANGED <<nodes, jointNames, inverseBindMatricesData, firstOffset, mUsedIds>>
    /\ UNCHANGED notSkin

\* The head of one round of the loop over the bones
ExportSkin_Bone(mName, mOffsetMatrix) ==
    /\ skinPc \in {"bones", "weights"}
    /\ IF mName \notin nodes
       THEN \* nodes.Get throws; ExportSkin is left with the arrays not freed
            /\ skinPc' = "idle"
            /\ last' = [op |-> "ExportSkin_Bone", ok |-> FALSE, added |-> FALSE]
            /\ UNCHANGED <<jointNames, inverseBindMatricesData, jointNamesIndex, firstOffset>>
       ELSE LET found == FindJoint(jointNames, mName) IN
            /\ skinPc' = "weights"
            /\ IF found = -1
               THEN /\ jointNames' = Append(jointNames, mName)
                    /\ inverseBindMatricesData' = Append(inverseBindMatricesData, mOffsetMatrix)
                    /\ jointNamesIndex' = AddedJointIndex(jointNames', inverseBindMatricesData')
               ELSE /\ jointNamesIndex' = found
                    /\ UNCHANGED <<jointNames, inverseBindMatricesData>>
            /\ firstOffset' = IF firstOffset[mName] = 0
                              THEN [firstOffset EXCEPT ![mName] = mOffsetMatrix]
                              ELSE firstOffset
            /\ last' = [op |-> "ExportSkin_Bone", ok |-> TRUE, added |-> (found = -1)]
    /\ UNCHANGED <<nodes, vertexJointData, vertexWeightData, jointsPerVertex, contributed, mUsedIds>>
    /\ UNCHANGED notSkin

\* One round of the loop over the weights of the bone in hand
ExportSkin_Weight(vertexId, vertWeight) ==
    /\ skinPc = "weights"
    /\ Influences(Verts) < MaxInfluences
    /\ contributed' = [contributed EXCEPT
                          ![vertexId] = Append(@, [joint |-> jointNamesIndex, weight |-> vertWeight])]
    /\ IF SlotFree(jointsPerVertex[vertexId])
       THEN /\ vertexJointData' =
                  [vertexJointData EXCEPT ![vertexId][jointsPerVertex[vertexId]] = jointNamesIndex]
            /\ vertexWeightData' =
                  [vertexWeightData EXCEPT ![vertexId][jointsPerVertex[vertexId]] = vertWeight]
            /\ jointsPerVertex' = [jointsPerVertex EXCEPT ![vertexId] = @ + 1]
            /\ last' = [op |-> "ExportSkin_Weight", kept |-> TRUE]
       ELSE /\ UNCHANGED <<vertexJointData, vertexWeightData, jointsPerVertex>>
            /\ last' = [op |-> "ExportSkin_Weight", kept |-> FALSE]
    /\ UNCHANGED <<nodes, jointNames, inverseBindMatricesData, jointNamesIndex, skinPc,
                   firstOffset, mUsedIds>>
    /\ UNCHANGED notSkin

\* The loop over the bones is over: the two arrays go to ExportData as they are
ExportSkin_End ==
    /\ skinPc = "weights"
    /\ skinPc' = "idle"
    /\ last' = [op |-> "ExportSkin_End"]
    /\ UNCHANGED <<nodes, jointNames, inverseBindMatricesData, vertexJointData, vertexWeightData,
                   jointsPerVertex, jointNamesIndex, contributed, firstOffset, mUsedIds>>
    /\ UNCHANGED notSkin

NextSkin ==
    \/ \E id \in Ids : CreateNode(id)
    \/ ExportSkin_Begin
    \/ \E mName \in Ids, mOffsetMatrix \in 1..MaxMatrix : ExportSkin_Bone(mName, mOffsetMatrix)
    \/ \E vertexId \in Verts, vertWeight \in 1..MaxWeight : ExportSkin_Weight(vertexId, vertWeight)
    \/ ExportSkin_End

----------------------------------------------------------------------------
(* Mesh::Read, one step per member of a primitive's "attributes" object.   *)
(* A key is the sequence of its characters; an accessor Ref is a number,   *)
(* 0 for the null Ref a resized vector is filled with.                     *)

MaxSet        == 1   \* largest set index N of a key SEMANTIC_N
MaxAttributes == 3   \* members of one "attributes" object
MaxAccessor   == 1   \* accessor Refs are 1..MaxAccessor

POSITION    == <<"P", "O", "S", "I", "T", "I", "O", "N">>
NORMAL      == <<"N", "O", "R", "M", "A", "L">>
TEXCOORD    == <<"T", "E", "X", "C", "O", "O", "R", "D">>
COLOR       == <<"C", "O", "L", "O", "R">>
JOINT       == <<"J", "O", "I", "N", "T">>
JOINTMATRIX == <<"J", "O", "I", "N", "T", "M", "A", "T", "R", "I", "X">>
WEIGHT      == <<"W", "E", "I", "G", "H", "T">>
TANGENT     == <<"T", "A", "N", "G", "E", "N", "T">>

\* The vectors of Primitive::Attributes, each named by its semantic
Semantics == {POSITION, NORMAL, TEXCOORD, COLOR, JOINT, JOINTMATRIX, WEIGHT}

DigitChars == <<"0", "1", "2", "3", "4", "5", "6", "7", "8", "9">>
IsDigit(c) == \E d \in 1..10 : DigitChars[d] = c
DigitValue(c) == (CHOOSE d \in 1..10 : DigitChars[d] = c) - 1

\* atoi on a string of the keys at hand: the leading digits, 0 without any
RECURSIVE AtoiFrom(_, _)
AtoiFrom(str, acc) ==
    IF str = <<>> \/ ~IsDigit(Head(str)) THEN acc
    ELSE AtoiFrom(Tail(str), 10 * acc + DigitValue(Head(str)))
atoi(str) == AtoiFrom(str, 0)

\* strncmp(attr, str, N - 1) == 0 ? N - 1 : 0, with N - 1 the length of str
Compare(attr, str) ==
    IF Len(attr) >= Len(str) /\ SubSeq(attr, 1, Len(str)) = str THEN Len(str) ELSE 0

\* GetAttribVector: the vector chosen for the key and the length of the semantic matched
GetAttribVector(attr) ==
    IF Compare(attr, POSITION) # 0 THEN [found |-> TRUE, v |-> POSITION, pos |-> Compare(attr, POSITION)]
    ELSE IF Compare(attr, NORMAL) # 0 THEN [found |-> TRUE, v |-> NORMAL, pos |-> Compare(attr, NORMAL)]
    ELSE IF Compare(attr, TEXCOORD) # 0 THEN [found |-> TRUE, v |-> TEXCOORD, pos |-> Compare(attr, TEXCOORD)]
    ELSE IF Compare(attr, COLOR) # 0 THEN [found |-> TRUE, v |-> COLOR, pos |-> Compare(attr, COLOR)]
    ELSE IF Compare(attr, JOINT) # 0 THEN [found |-> TRUE, v |-> JOINT, pos |-> Compare(attr, JOINT)]
    ELSE IF Compare(attr, JOINTMATRIX) # 0 THEN [found |-> TRUE, v |-> JOINTMATRIX, pos |-> Compare(attr, JOINTMATRIX)]
    ELSE IF Compare(attr, WEIGHT) # 0 THEN [found |-> TRUE, v |-> WEIGHT, pos |-> Compare(attr, WEIGHT)]
    ELSE [found |-> FALSE, v |-> <<>>, pos |-> 0]

\* size_t idx = (attr[undPos] == '_') ? atoi(attr + undPos + 1) : 0;
AttribIndex(attr, undPos) ==
    IF undPos < Len(attr) /\ attr[undPos + 1] = "_"
    THEN atoi(SubSeq(attr, undPos + 2, Len(attr)))
    ELSE 0

\* if ((*vec).size() <= idx) (*vec).resize(idx + 1);
Resized(vec, idx) ==
    IF Len(vec) <= idx THEN [i \in 1..(idx + 1) |-> IF i <= Len(vec) THEN vec[i] ELSE 0]
    ELSE vec

\* The key SEMANTIC for n = -1 and SEMANTIC_n otherwise
Key(semantic, n) == IF n = -1 THEN semantic ELSE semantic \o <<"_", DigitChars[n + 1]>>
KeyInputs == {Key(sem, n) : sem \in Semantics \cup {TANGENT}, n \in -1..MaxSet}

\* Mesh::Read comes to a primitive: its attribute vectors are empty
ReadPrimitive ==
    /\ attributes' = [sem \in Semantics |-> <<>>]
    /\ nAttributes' = 0
    /\ last' = [op |-> "ReadPrimitive"]
    /\ UNCHANGED notMesh

\* One round of the loop over the members of "attributes": the member attr,
\* whose value is a string or not; accessors.Get gives the Ref ref or throws
ReadAttribute(attr, isString, ref, resolves) ==
    /\ nAttributes < MaxAttributes
    /\ nAttributes' = nAttributes + 1
    /\ LET g == GetAttribVector(attr) IN
       IF ~isString \/ ~g.found
       THEN /\ attributes' = attributes
            /\ last' = [op |-> "ReadAttribute", set |-> FALSE, err |-> "none"]
       ELSE LET idx == AttribIndex(attr, g.pos)
                vec == Resized(attributes[g.v], idx) IN
            IF resolves
            THEN /\ attributes' = [attributes EXCEPT ![g.v] = [vec EXCEPT ![idx + 1] = ref]]
                 /\ last' = [op |-> "ReadAttribute", set |-> TRUE, err |-> "none"]
            ELSE /\ attributes' = [attributes EXCEPT ![g.v] = vec]
                 /\ last' = [op |-> "ReadAttribute", set |-> FALSE, err |-> "Get"]
    /\ UNCHANGED notMesh

NextMesh ==
    \/ ReadPrimitive
    \/ \E attr \in KeyInputs, isString \in BOOLEAN, ref \in 1..MaxAccessor, resolves \in BOOLEAN :
          ReadAttribute(attr, isString, ref, resolves)

InitMesh ==
    /\ attributes = [sem \in Semantics |-> <<>>]
    /\ nAttributes = 0

InitSkin ==
    /\ nodes = {}
    /\ jointNames = <<>>
    /\ inverseBindMatricesData = <<>>
    /\ vertexJointData = [v \in Verts |-> Zero4]
    /\ vertexWeightData = [v \in Verts |-> Zero4]
    /\ jointsPerVertex = [v \in Verts |-> 0]
    /\ jointNamesIndex = 0
    /\ skinPc = "idle"
    /\ contributed = [v \in Verts |-> <<>>]
    /\ firstOffset = [id \in Ids |-> 0]

----------------------------------------------------------------------------
(* Accessor::Indexer::GetValue, Accessor::WriteData with CopyData, and the *)
(* bytes Accessor::ExtractData reads.  The accessors have a bufferView     *)
(* with a buffer, components of one byte, and no region is active.         *)

AccessorInputs ==
    {[hasBufferView |-> TRUE, hasBuffer |-> TRUE, byteOffset |-> o, viewOffset |-> v,
      viewLength |-> l, byteStride |-> s, numComponents |-> n, bytesPerComponent |-> 1,
      count |-> c] :
        o \in 0..1, v \in 0..1, l \in 0..MaxBytes, s \in 0..MaxAmount,
        n \in 1..MaxAmount, c \in 0..MaxAmount}

\* stride(acc.byteStride ? acc.byteStride : elemSize)
Stride(acc) == IF acc.byteStride # 0 THEN acc.byteStride ELSE GetElementSize(acc)

\* T Indexer::GetValue<T>(i) with sizeof(T) = sizeofT: the value returned, and
\* the number of bytes memcpy stores at &value
GetValueOp(b, acc, i, sizeofT) ==
    LET data == GetPointer(b, acc)
        elemSize == GetElementSize(acc)
    IN  [value |-> [k \in 1..sizeofT |->
                       IF k <= elemSize THEN Deref(b, data, i * Stride(acc) + (k - 1)) ELSE 0],
         copied |-> elemSize]

\* The caller's array of n bytes: 1, 0, 1, ...
SourceData(n) == [i \in 1..n |-> i % 2]

\* CopyData(count, src, src_stride, dst, dst_stride): the bytes stored, as a
\* function from the offsets behind dst to the values stored there
CopyData(count, src, src_stride, dst_stride) ==
    IF src_stride = dst_stride
    THEN [o \in 0..(count * src_stride - 1) |-> src[o + 1]]
    ELSE LET sz == Min(src_stride, dst_stride) IN
         [o \in 0..(count * dst_stride - 1) |->
             IF o % dst_stride < sz
             THEN src[(o \div dst_stride) * src_stride + (o % dst_stride) + 1]
             ELSE 0]

\* ai_assert(dst + count * dst_stride <= buffer_ptr + bufferView->buffer->byteLength)
WriteDataAssertion(b, acc) ==
    acc.byteOffset + acc.viewOffset + acc.count * GetElementSize(acc) <= b.byteLength

\* Accessor::WriteData(cnt, src_buffer, src_stride): the buffer afterwards and
\* the offsets of the buffer the call stores at
WriteDataOp(b, acc, cnt, src_buffer, src_stride) ==
    LET offset == acc.byteOffset + acc.viewOffset
        stored == CopyData(cnt, src_buffer, src_stride, GetElementSize(acc))
    IN  [buf |-> [b EXCEPT !.mData =
                     Block([i \in 1..Len(b.mData.bytes) |->
                              IF (i - 1) - offset \in DOMAIN stored
                              THEN stored[(i - 1) - offset] ELSE b.mData.bytes[i]])],
         writes |-> {offset + o : o \in DOMAIN stored}]

\* The offsets of the buffer that ExtractData reads
ExtractReads(acc) ==
    {acc.byteOffset + acc.viewOffset + i * Stride(acc) + k :
        i \in 0..(acc.count - 1), k \in 0..(GetElementSize(acc) - 1)}

\* indexer.GetValue<T>(i), where both assertions of GetValue hold
GetValue(acc, i, sizeofT) ==
    /\ GetPointer(BufferState, acc).base # "null"
    /\ i * Stride(acc) < acc.viewLength
    /\ LET r == GetValueOp(BufferState, acc, i, sizeofT) IN
        last' = [op |-> "GetValue", value |-> r.value, copied |-> r.copied]
    /\ UNCHANGED bufVars
    /\ UNCHANGED notBuffer

\* accessor.WriteData(cnt, src_buffer, src_stride) into a buffer with data,
\* where the assertion of WriteData holds
WriteData(acc, cnt, src_stride) ==
    /\ ~mData.null
    /\ WriteDataAssertion(BufferState, acc)
    /\ LET r == WriteDataOp(BufferState, acc, cnt, SourceData(cnt * src_stride), src_stride) IN
        /\ SetBuffer(r.buf)
        /\ last' = [op |-> "WriteData", writes |-> r.writes]
    /\ rawLength' = rawLength
    /\ UNCHANGED notBuffer

\* accessor.ExtractData<T>(outData), where both assertions of ExtractData hold
\* when it comes to them
CallExtractData(acc, targetElemSize) ==
    /\ LET r == ExtractData(BufferState, acc, targetElemSize) IN
        /\ r.ok => /\ GetElementSize(acc) <= targetElemSize
                   /\ acc.count * Stride(acc) <= acc.viewLength
        /\ last' = [op |-> "ExtractData", ok |-> r.ok, outData |-> r.outData,
                    reads |-> IF r.ok THEN ExtractReads(acc) ELSE {}]
    /\ UNCHANGED bufVars
    /\ UNCHANGED notBuffer

\* A buffer that is filled by AppendData, and accessors over it
NextAccessor ==
    \/ \E data \in SeqUpTo(Byte, MaxAmount) : AppendData(data)
    \/ \E acc \in AccessorInputs, i \in 0..MaxAmount, sizeofT \in 1..MaxAmount :
          GetValue(acc, i, sizeofT)
    \/ \E acc \in AccessorInputs, cnt \in 0..MaxAmount, src_stride \in 1..MaxAmount :
          WriteData(acc, cnt, src_stride)
    \/ \E acc \in AccessorInputs, targetElemSize \in 1..MaxAmount :
          CallExtractData(acc, targetElemSize)

----------------------------------------------------------------------------
(* Write(Value&, Skin&, AssetWriter&).  A skin is its jointNames, a        *)
(* sequence of Refs to nodes, each node with its id and its jointName, and *)
(* its inverseBindMatrices, the id of an accessor or NoId for a null Ref.  *)

MaxJoints == 3   \* longest jointNames

Node(id, jointName) == [id |-> id, jointName |-> jointName]
NodeInputs == {Node(id, jointName) : id \in Ids, jointName \in Ids \cup {""}}
SkinInputs ==
    {[jointNames |-> joints, inverseBindMatrices |-> acc] :
        joints \in SeqUpTo(NodeInputs, MaxJoints), acc \in Ids \cup {NoId}}

\* The members written for the skin b: "jointNames", and "inverseBindMatrices"
\* (NoId: the member is left out)
WriteSkinOp(b) ==
    [jointNames |-> [i \in 1..Len(b.jointNames) |-> b.jointNames[i].jointName],
     inverseBindMatrices |-> b.inverseBindMatrices]

WriteSkin(b) ==
    /\ LET r == WriteSkinOp(b) IN
        last' = [op |-> "WriteSkin", jointNames |-> r.jointNames,
                 inverseBindMatrices |-> r.inverseBindMatrices]
    /\ UNCHANGED <<bufVars, dictVars, skinVars, meshVars, loadVars>>

NextWriter == \E b \in SkinInputs : WriteSkin(b)

----------------------------------------------------------------------------
(* Asset::FindUniqueID, and the calls of the exporter that create an       *)
(* object under the id it returns.  An id is the sequence of its           *)
(* characters here.                                                        *)

BufferSize == 1024   \* char buffer[1024]
MaxUsed    == 4      \* ids in the used-id set; below 10, see Probe

\* ai_snprintf(buf, size, "...") for a text: the characters stored in front of
\* the terminating 0, none of them and no 0 when size is 0
snprintf(size, text) ==
    IF size = 0 THEN <<>> ELSE SubSeq(text, 1, Min(Len(text), size - 1))

\* "%d" of a number that is not negative
RECURSIVE Itoa(_)
Itoa(i) ==
    IF i < 10 THEN <<DigitChars[i + 1]>>
    ELSE Itoa(i \div 10) \o <<DigitChars[(i % 10) + 1]>>

\* for (int i = 0; it != mUsedIds.end(); ++i): buffer holds head, and room
\* bytes are left behind it.  With fewer than 10 used ids the loop ends within
\* Cardinality(used) + 1 rounds unless every round gives the same used id.
RECURSIVE Probe(_, _, _, _)
Probe(used, head, room, i) ==
    LET id == head \o snprintf(room, Itoa(i)) IN
    IF id \notin used THEN [done |-> "returned", id |-> id]
    ELSE IF i > Cardinality(used) THEN [done |-> "endless", id |-> id]
    ELSE Probe(used, head, room, i + 1)

\* Asset::FindUniqueID(str, suffix): how the call ends and the id in hand
FindUniqueIDOp(used, str, suffix) ==
    IF str # <<>> /\ str \notin used THEN [done |-> "returned", id |-> str]
    ELSE
        LET id == (IF str # <<>> THEN str \o <<"_">> ELSE str) \o suffix IN
        IF id \notin used THEN [done |-> "returned", id |-> id]
        ELSE
            LET offset == Len(id) + 1
                head == snprintf(BufferSize, id \o <<"_">>)
            IN  IF offset > BufferSize
                THEN \* buffer + offset lies behind the buffer and the size wraps
                     [done |-> "overrun", id |-> id]
                ELSE Probe(used, head, BufferSize - offset, 0)

\* A name of n characters
Pad(n) == [i \in 1..n |-> "x"]
\* The names handed in: none, a short one, and names that fill the buffer
NameInputs == {<<>>, <<"m">>} \cup {Pad(BufferSize - k) : k \in 5..8}
SuffixInputs == {<<"m", "e", "s", "h">>}

\* std::string id = FindUniqueID(str, suffix).  A call that overruns the
\* buffer is undefined: it does not come back, or comes back with the id it had.
FindUniqueID(str, suffix) ==
    /\ LET r == FindUniqueIDOp(mUsedIds, str, suffix) IN
        \E back \in BOOLEAN :
            /\ back = TRUE \/ r.done = "overrun"
            /\ last' = [op |-> "FindUniqueID", str |-> str,
                        returned |-> (r.done = "returned" \/ (r.done = "overrun" /\ back)),
                        done |-> r.done, id |-> r.id]
    /\ UNCHANGED <<mDict, mObjs, mObjsById, mUsedIds>>
    /\ UNCHANGED notDict

\* meshes.Create(FindUniqueID(aim->mName.C_Str(), "mesh")), as far as the
\* used-id set goes
CreateUnique(str, suffix) ==
    /\ Cardinality(mUsedIds) < MaxUsed
    /\ LET r == FindUniqueIDOp(mUsedIds, str, suffix) IN
        /\ r.done = "returned"
        /\ mUsedIds' = mUsedIds \cup {r.id}
        /\ last' = [op |-> "CreateUnique", ok |-> ~CreateRejects(AssetState, "buffers", r.id)]
    /\ UNCHANGED <<mDict, mObjs, mObjsById>>
    /\ UNCHANGED notDict

NextIds ==
    \/ \E str \in NameInputs, suffix \in SuffixInputs : FindUniqueID(str, suffix)
    \/ \E str \in NameInputs, suffix \in SuffixInputs : CreateUnique(str, suffix)

Init == InitBuffer /\ InitDict /\ InitSkin /\ InitMesh /\ InitLoad /\ last = [op |-> "Init"]

Spec == Init /\ [][Next]_vars

SpecRegion == Init /\ [][NextRegion]_vars

SpecDict == Init /\ [][NextDict]_vars

SpecLoad == Init /\ [][NextLoad]_vars

SpecRoundTrip == Init /\ [][NextRoundTrip]_vars

SpecMesh == Init /\ [][NextMesh]_vars

SpecRead == Init /\ [][NextRead]_vars

SpecSkin == Init /\ [][NextSkin]_vars

SpecIds == Init /\ [][NextIds]_vars

SpecAccessor == Init /\ [][NextAccessor]_vars

SpecWriter == Init /\ [][NextWriter]_vars

InitCycle == InitBuffer /\ InitNodes /\ InitSkin /\ InitMesh /\ InitLoad /\ last = [op |-> "Init"]

SpecCycle == InitCycle /\ [][NextCycle]_vars

----------------------------------------------------------------------------
(* Properties of the raw store, checked under Spec *)

\* The bytes of the block that lie below offset n, as far as the block holds them
Readable(data, n) == IF data.null THEN 0 ELSE Min(n, Len(data.bytes))

PrefixKept(n) ==
    \A k \in 1..Readable(mData, n) :
        /\ ~mData'.null
        /\ k <= Len(mData'.bytes)
        /\ mData'.bytes[k] = mData.bytes[k]

\* C1: Grow(n) adds exactly n to byteLength and leaves every byte that was
\* readable below the old byteLength as it was, on the path that only moves
\* byteLength and on the path that reallocates.
C1_GrowKeepsPrefix ==
    [][\A amount \in 0..MaxAmount :
          Grow(amount) => /\ byteLength' = byteLength + amount
                          /\ PrefixKept(byteLength)]_vars

\* A Grow reallocated a block that held a written byte, and the byte is still there
C1_Witness ==
    /\ last.op = "Grow"
    /\ last.path = "realloc"
    /\ byteLength >= 2
    /\ ~mData.null
    /\ Cell(mData.bytes, 0) \in Byte

\* The tightly packed accessor of single bytes that covers [offset, offset + n)
CoveringAccessor(offset, n) ==
    [hasBufferView |-> TRUE, hasBuffer |-> TRUE, byteOffset |-> 0,
     viewOffset |-> offset, viewLength |-> n, byteStride |-> 0,
     numComponents |-> 1, bytesPerComponent |-> 1, count |-> n]

\* C2: AppendData(data, length) returns the byteLength before the call; after it
\* ExtractData over a tightly packed accessor covering [ret, ret + length) gives
\* data back, and the bytes below ret are as before.  (Stated for length > 0.)
C2_AppendThenExtract ==
    [][\A data \in SeqUpTo(Byte, MaxAmount) :
          (Len(data) > 0 /\ AppendData(data)) =>
              /\ last'.ret = byteLength
              /\ LET r == ExtractData(BufferState', CoveringAccessor(last'.ret, Len(data)), 1)
                 IN  /\ r.ok
                     /\ r.outData = [i \in 1..Len(data) |-> <<data[i]>>]
              /\ PrefixKept(byteLength)]_vars

----------------------------------------------------------------------------
(* Properties of the encoded-region overlay, checked under SpecRegion *)

\* C7: EncodedRegion_Mark fails, with the region list and byteLength left as
\* they were, when the decoded pointer is null, or offset > byteLength, or
\* offset + encodedLength > byteLength; otherwise it appends exactly one region
\* and byteLength changes by decodedLength - encodedLength.
C7_MarkChecksAndDelta ==
    [][\A pOffset \in 0..MaxBytes, pEncodedData_Length \in 0..MaxAmount,
          pDecodedData \in DecodedInputs, pID \in RegionIds :
          EncodedRegion_Mark(pOffset, pEncodedData_Length, pDecodedData, pID) =>
              IF \/ pDecodedData.null
                 \/ pOffset > byteLength
                 \/ pOffset + pEncodedData_Length > byteLength
              THEN /\ ~last'.ok
                   /\ EncodedRegion_List' = EncodedRegion_List
                   /\ byteLength' = byteLength
              ELSE /\ last'.ok
                   /\ Len(EncodedRegion_List') = Len(EncodedRegion_List) + 1
                   /\ SubSeq(EncodedRegion_List', 1, Len(EncodedRegion_List)) = EncodedRegion_List
                   /\ LET reg == EncodedRegion_List'[Len(EncodedRegion_List')] IN
                        /\ reg.Offset = pOffset
                        /\ reg.EncodedData_Length = pEncodedData_Length
                        /\ reg.DecodedData_Length = Len(pDecodedData.bytes)
                        /\ reg.ID = pID
                   /\ byteLength' = byteLength + Len(pDecodedData.bytes) - pEncodedData_Length]_vars

\* A region of one encoded byte that decodes to two was marked: byteLength grew by one
C7_Witness ==
    /\ last.op = "EncodedRegion_Mark"
    /\ last.ok
    /\ EncodedRegion_List # <<>>
    /\ EncodedRegion_List[Len(EncodedRegion_List)].EncodedData_Length = 1
    /\ EncodedRegion_List[Len(EncodedRegion_List)].DecodedData_Length = 2
    /\ byteLength = rawLength + 1

\* C8: EncodedRegion_SetCurrent(id) makes a registered region with that ID the
\* active one; when no region carries the ID it fails with the not-found error
\* and the active region stays; the active region is always none or one of the
\* registered regions.
C8_SetCurrent ==
    /\ [](EncodedRegion_Current \in 0..Len(EncodedRegion_List))
    /\ [][\A pID \in RegionIds :
            EncodedRegion_SetCurrent(pID) =>
                IF \E i \in 1..Len(EncodedRegion_List) : EncodedRegion_List[i].ID = pID
                THEN /\ last'.ok
                     /\ EncodedRegion_Current' \in 1..Len(EncodedRegion_List')
                     /\ EncodedRegion_List'[EncodedRegion_Current'].ID = pID
                ELSE /\ ~last'.ok
                     /\ last'.err = "NotFound"
                     /\ EncodedRegion_Current' = EncodedRegion_Current]_vars

\* With a region active, a SetCurrent for an ID no region carries failed
C8_Witness ==
    /\ last.op = "EncodedRegion_SetCurrent"
    /\ ~last.ok
    /\ EncodedRegion_Current # 0

\* C9: GetPointer is null when the bufferView, its buffer or the buffer's data is
\* unset; with an active region R and offset = byteOffset + bufferView.byteOffset
\* in [R.Offset, R.Offset + R.DecodedData_Length) it is byte offset - R.Offset of
\* R's decoded storage; in every other case it is byte offset of the raw store.
C9_PointerResolution ==
    [][\A acc \in PointerInputs :
          CallGetPointer(acc) =>
              LET offset == acc.byteOffset + acc.viewOffset
                  cur == EncodedRegion_Current
              IN  IF ~acc.hasBufferView \/ ~acc.hasBuffer \/ mData.null
                  THEN last'.ptr.base = "null"
                  ELSE IF /\ cur # 0
                          /\ offset >= EncodedRegion_List[cur].Offset
                          /\ offset < EncodedRegion_List[cur].Offset
                                        + EncodedRegion_List[cur].DecodedData_Length
                  THEN /\ last'.ptr.base = "decoded"
                       /\ last'.ptr.region = cur
                       /\ last'.ptr.off = offset - EncodedRegion_List[cur].Offset
                  ELSE /\ last'.ptr.base = "raw"
                       /\ last'.ptr.off = offset]_vars

\* A pointer into the decoded storage, past the encoded length of the region
C9_Witness ==
    /\ last.op = "GetPointer"
    /\ last.ptr.base = "decoded"
    /\ last.ptr.off >= EncodedRegion_List[last.ptr.region].EncodedData_Length
    /\ last.ptr.off > 0

RECURSIVE SumDeltas(_)
SumDeltas(list) ==
    IF list = <<>> THEN 0
    ELSE (Head(list).DecodedData_Length - Head(list).EncodedData_Length) + SumDeltas(Tail(list))

\* C10: in every reachable state byteLength is the length of the raw stored data
\* plus the sum over the registered regions of decodedLength - encodedLength.
C10_LengthIsRawPlusDeltas ==
    byteLength = rawLength + SumDeltas(EncodedRegion_List)

----------------------------------------------------------------------------
(* Properties of the dictionaries, checked under SpecDict *)

ObjIds(d) == {mObjs[d][i].id : i \in 1..Len(mObjs[d])}

\* Some dictionary holds an object that a Create call made under this id
CreatedIn(d, id) ==
    \E i \in 1..Len(mObjs[d]) : mObjs[d][i].id = id /\ ~mObjs[d][i].backed

\* C3: once a Create(id) has succeeded on some dictionary, a Create(id) on any
\* dictionary of the Asset fails with the duplicate-id error, and the failing
\* call adds no object to any dictionary and no entry to the used-id set.
C3_SecondCreateFails ==
    [][\A d \in Dicts, id \in Ids :
          (Create(d, id) /\ \E d1 \in Dicts : CreatedIn(d1, id)) =>
              /\ ~last'.ok
              /\ last'.err = "DuplicateId"
              /\ mObjs' = mObjs
              /\ mObjsById' = mObjsById
              /\ mUsedIds' = mUsedIds]_vars

\* A Create failed on one dictionary for an id that a Create made in another one
C3_Witness ==
    /\ last.op = "Create"
    /\ ~last.ok
    /\ \E d1 \in Dicts \ {last.dict} : CreatedIn(d1, last.id)
    /\ ~CreatedIn(last.dict, last.id)

\* C4: no id is carried by objects of two different dictionaries, and no
\* dictionary holds two objects with the same id.
C4_IdsDisjoint ==
    /\ \A d1 \in Dicts, d2 \in Dicts : d1 # d2 => ObjIds(d1) \cap ObjIds(d2) = {}
    /\ \A d \in Dicts : \A i \in 1..Len(mObjs[d]), j \in 1..Len(mObjs[d]) :
          mObjs[d][i].id = mObjs[d][j].id => i = j

\* C5: Get(id) for an id already materialized in the dictionary returns the
\* Ref of that object, constructs nothing, succeeds whatever the manifest
\* section is (also detached), and leaves every dictionary as it was; an id of
\* the by-id map resolves to the one object of the dictionary that carries it.
C5_GetReturnsExisting ==
    /\ [](\A d \in Dicts, id \in Ids :
            mObjsById[d][id] # 0 =>
                /\ mObjsById[d][id] \in 1..Len(mObjs[d])
                /\ \A i \in 1..Len(mObjs[d]) :
                      mObjs[d][i].id = id <=> i = mObjsById[d][id])
    /\ [][\A d \in Dicts, id \in Ids :
            (Get(d, id) /\ mObjsById[d][id] # 0) =>
                /\ last'.ok
                /\ last'.idx = mObjsById[d][id]
                /\ mObjs'[d][last'.idx] = mObjs[d][mObjsById[d][id]]
                /\ mObjs' = mObjs
                /\ mObjsById' = mObjsById
                /\ mUsedIds' = mUsedIds]_vars

\* A Get found its object while no dictionary was attached to a document
C5_Witness ==
    /\ last.op = "Get"
    /\ last.ok
    /\ last.hit
    /\ \A d \in Dicts : ~mDict[d].attached

\* C6: Get(id) for an id not yet materialized fails with the missing-section
\* error when no section is attached, else with the missing-object error when
\* the section has no member id, else with the malformed-object error when the
\* member is no JSON object; a failing Get registers no object under id in the
\* dictionary and adds nothing to the used-id set.
C6_GetFailures ==
    [][\A d \in Dicts, id \in Ids :
          (Get(d, id) /\ mObjsById[d][id] = 0) =>
              /\ ~mDict[d].attached => last'.err = "MissingSection"
              /\ (mDict[d].attached /\ mDict[d].members[id].kind = "absent")
                    => last'.err = "MissingObject"
              /\ (mDict[d].attached /\ mDict[d].members[id].kind = "notobject")
                    => last'.err = "MalformedObject"
              /\ last'.err # "none" =>
                    /\ ~last'.ok
                    /\ mObjsById'[d][id] = 0
                    /\ mObjs'[d] = mObjs[d]
                    /\ mUsedIds' = mUsedIds]_vars

\* A Get failed on a member that is no JSON object, of an id nothing uses
C6_Witness ==
    /\ last.op = "Get"
    /\ last.err = "MalformedObject"
    /\ \E d \in Dicts, id \in Ids :
          /\ mDict[d].attached
          /\ mDict[d].members[id].kind = "notobject"
          /\ id \notin mUsedIds

----------------------------------------------------------------------------
(* Properties of Buffer::ReplaceData, checked under Spec *)

\* The block holds every byte below byteLength, each with a value
Stored == ~mData.null /\ Len(mData.bytes) >= byteLength
             /\ \A k \in 1..byteLength : mData.bytes[k] \in Byte

\* The old bytes [0, offset), then the new data, then the old bytes [offset + oldCount, L)
Spliced(old, offset, oldCount, newData, L) ==
    SubSeq(old, 1, offset) \o newData \o SubSeq(old, offset + oldCount + 1, L)

\* C11: a successful ReplaceData(offset, oldCount, newData, newCount) on a buffer
\* of length L with offset + oldCount <= L gives a buffer of length
\* L - oldCount + newCount that holds the old bytes below offset, then newData,
\* then all old bytes from offset + oldCount on.
C11_ReplaceKeepsOutside ==
    [][\A pBufferData_Offset \in 0..MaxBytes, pBufferData_Count \in 0..MaxAmount,
          pReplace_Data \in ReplaceInputs :
          (/\ ReplaceData(pBufferData_Offset, pBufferData_Count, pReplace_Data,
                          Len(pReplace_Data.bytes))
           /\ last'.replaced
           /\ Stored
           /\ pBufferData_Offset + pBufferData_Count <= byteLength) =>
              /\ byteLength' = byteLength - pBufferData_Count + Len(pReplace_Data.bytes)
              /\ ~mData'.null
              /\ SubSeq(mData'.bytes, 1, byteLength') =
                    Spliced(mData.bytes, pBufferData_Offset, pBufferData_Count,
                            pReplace_Data.bytes, byteLength)]_vars

\* C12: ReplaceData returns false and leaves the contents and byteLength as they
\* were when oldCount is 0, or newCount is 0, or the replacement pointer is null.
C12_ReplaceRejectsEmpty ==
    [][\A pBufferData_Offset \in 0..MaxBytes, pBufferData_Count \in 0..MaxAmount,
          pReplace_Data \in ReplaceInputs :
          \A pReplace_Count \in ReplaceCounts(pReplace_Data) :
              (/\ ReplaceData(pBufferData_Offset, pBufferData_Count, pReplace_Data, pReplace_Count)
               /\ (pBufferData_Count = 0 \/ pReplace_Count = 0 \/ pReplace_Data.null)) =>
                  /\ ~last'.replaced
                  /\ last'.err = "none"
                  /\ mData' = mData
                  /\ byteLength' = byteLength]_vars

\* A ReplaceData on a loaded buffer returned false without raising anything
C12_Witness ==
    /\ last.op = "ReplaceData"
    /\ ~last.replaced
    /\ last.err = "none"
    /\ byteLength >= 2
    /\ Stored

\* C13: ReplaceData returns false and leaves the buffer as it was whenever
\* offset > byteLength or offset + oldCount > byteLength; it returns true only
\* when the replaced range lies inside the buffer.
C13_ReplaceRejectsOutOfRange ==
    [][\A pBufferData_Offset \in 0..MaxBytes, pBufferData_Count \in 0..MaxAmount,
          pReplace_Data \in ReplaceInputs :
          (/\ ReplaceData(pBufferData_Offset, pBufferData_Count, pReplace_Data,
                          Len(pReplace_Data.bytes))
           /\ (\/ pBufferData_Offset > byteLength
               \/ pBufferData_Offset + pBufferData_Count > byteLength)) =>
              /\ ~last'.replaced
              /\ last'.err = "none"
              /\ mData' = mData
              /\ byteLength' = byteLength]_vars

----------------------------------------------------------------------------
(* Properties of ExportSkin, checked under SpecSkin *)

\* C14: every vertex holds at most four (joint index, weight) pairs, the first
\* four influences it was given, in the order given, in slots 0..3; later
\* influences are dropped and change nothing, unused slots are 0, and the
\* counter of every vertex is in 0..4.
C14_FirstFourInfluences ==
    \A v \in Verts :
        /\ jointsPerVertex[v] \in 0..4
        /\ jointsPerVertex[v] = Min(4, Len(contributed[v]))
        /\ \A j \in 0..3 :
              IF j < Len(contributed[v])
              THEN /\ vertexJointData[v][j] = contributed[v][j + 1].joint
                   /\ vertexWeightData[v][j] = contributed[v][j + 1].weight
              ELSE /\ vertexJointData[v][j] = 0
                   /\ vertexWeightData[v][j] = 0

\* A vertex was given the weights .1 .2 .1 .2 .1 and the export ended with .1 .2 .1 .2
C14_Witness ==
    /\ last.op = "ExportSkin_End"
    /\ \E v \in Verts :
          /\ [i \in 1..Len(contributed[v]) |-> contributed[v][i].weight] = <<1, 2, 1, 2, 1>>
          /\ vertexWeightData[v] = [j \in 0..3 |-> <<1, 2, 1, 2>>[j + 1]]

\* C15: jointNames holds every joint name at most once; the matrix list is as
\* long as jointNames and holds, per joint, the offset matrix of the first bone
\* seen with that name; the joint index of a bone, which is what its
\* influences are written with, is the position of its node in jointNames.
C15_JointsUnique ==
    /\ [](/\ \A i \in 1..Len(jointNames), j \in 1..Len(jointNames) :
                jointNames[i] = jointNames[j] => i = j
          /\ Len(inverseBindMatricesData) = Len(jointNames)
          /\ \A i \in 1..Len(jointNames) :
                i <= Len(inverseBindMatricesData)
                   => inverseBindMatricesData[i] = firstOffset[jointNames[i]])
    /\ [][/\ \A mName \in Ids, mOffsetMatrix \in 1..MaxMatrix :
                (ExportSkin_Bone(mName, mOffsetMatrix) /\ last'.ok) =>
                    /\ jointNamesIndex' + 1 \in 1..Len(jointNames')
                    /\ jointNames'[jointNamesIndex' + 1] = mName
          /\ \A vertexId \in Verts, vertWeight \in 1..MaxWeight :
                (ExportSkin_Weight(vertexId, vertWeight) /\ last'.kept) =>
                    /\ vertexJointData'[vertexId][jointsPerVertex[vertexId]] = jointNamesIndex
                    /\ jointNamesIndex' = jointNamesIndex
                    /\ jointNames' = jointNames]_vars

\* A bone of a later mesh named a joint that is already in jointNames, behind
\* another joint, and came with another offset matrix than the recorded one
C15_Witness ==
    /\ last.op = "ExportSkin_Bone"
    /\ last.ok
    /\ ~last.added
    /\ Len(jointNames) = 2
    /\ jointNamesIndex = 1
    /\ inverseBindMatricesData = <<1, 1>>
    /\ \E v \in Verts : vertexJointData[v][0] = 1

----------------------------------------------------------------------------
(* Properties of Buffer::Read, checked under SpecRead *)

\* C16: Read of a buffer with a base64 data-URI fails with the length-mismatch
\* error whenever the stated byteLength differs from the length of the decoded
\* payload, a stated byteLength of 0 included; when they agree byteLength is
\* the decoded length.
C16_Base64LengthChecked ==
    [][\A statedLength \in 0..MaxStream, payload \in SeqUpTo(Byte, MaxStream) :
          Read(statedLength, Base64Uri(payload)) =>
              IF statedLength # Len(payload)
              THEN last'.err = "LengthMismatch"
              ELSE last'.err = "none" /\ byteLength' = Len(payload)]_vars

----------------------------------------------------------------------------
(* Properties of Mesh::Read, checked under SpecMesh *)

\* C17: a key SEMANTIC_N sets slot N of the accessor sequence of that semantic
\* and a key SEMANTIC sets its slot 0; the sequence grows only as far as needed,
\* new slots below N are null Refs, and nothing else changes.
C17_AttributeSlots ==
    [][\A sem \in Semantics, n \in -1..MaxSet, ref \in 1..MaxAccessor :
          ReadAttribute(Key(sem, n), TRUE, ref, TRUE) =>
              LET slot == IF n = -1 THEN 0 ELSE n IN
              /\ Len(attributes'[sem]) = Max(Len(attributes[sem]), slot + 1)
              /\ attributes'[sem][slot + 1] = ref
              /\ \A i \in 1..Len(attributes'[sem]) :
                    i # slot + 1 =>
                        attributes'[sem][i] = IF i <= Len(attributes[sem])
                                              THEN attributes[sem][i] ELSE 0
              /\ \A other \in Semantics \ {sem} : attributes'[other] = attributes[other]]_vars

----------------------------------------------------------------------------
(* Properties of Asset::Load, checked under SpecLoad and SpecRoundTrip *)

\* C18: after Load has finished in any way (a return, the early return on
\* unreadable metadata, or an error raised while the scene is resolved) no
\* dictionary is attached to the manifest document.
C18_LoadLeavesDetached ==
    last.op = "Load" => \A d \in Dicts : ~mDict[d].attached

\* C19: Load rejects the manifest on length grounds exactly when its length is
\* below 2 or at least 2^32; every length in [2, 2^32 - 1] passes the check.
C19_LengthWindow ==
    [][\A m \in LoadInputs :
          (Load(m) /\ m.opens) =>
              (last'.err \in {"NoJSON", "TooLarge"}
                  <=> (SizeLess(m.length, SizeT(0, 2)) \/ ~SizeLess(m.length, FourGiB)))]_vars

\* The ids of the objects the asset holds
AssetIds == UNION {ObjIds(d) : d \in Dicts}

\* C20: loading into a new asset the manifest that the writer wrote gives an
\* asset that holds the ids of all objects the writer emitted.
C20_RoundTripKeepsIds ==
    [][(/\ written.valid
        /\ Load(written.doc)
        /\ \A d \in Dicts : mObjs[d] = <<>>) =>
            /\ last'.err = "none"
            /\ AssetIds' = written.ids]_vars

----------------------------------------------------------------------------
(* Properties of AssetWriter, checked under SpecRoundTrip *)

\* C21: the writer serializes every object of every dictionary without failing,
\* and a null Ref (here the buffer of a bufferView) is left out of the output:
\* it is never read through and nothing is emitted for it.
C21_WriterOmitsNullRefs ==
    [][WriteFile =>
          /\ ~last'.derefNull
          /\ written'.valid
          /\ written'.ids = AssetIds
          /\ \A i \in 1..Len(mObjs["bufferViews"]) :
                mObjs["bufferViews"][i].ref = 0 =>
                    written'.doc.sections["bufferViews"].members[mObjs["bufferViews"][i].id]
                        = Object(NoId, 0)]_vars

----------------------------------------------------------------------------
(* Properties of Asset::FindUniqueID, checked under SpecIds *)

\* C22: FindUniqueID(str, suffix) always returns, and returns an id that is not
\* in the used-id set; it returns str itself when str is not empty and not
\* used; it leaves the used-id set as it was, so that a Create with the id
\* returned does not fail with the duplicate-id error.
C22_FindUniqueIDIsUnused ==
    [][\A str \in NameInputs, suffix \in SuffixInputs :
          FindUniqueID(str, suffix) =>
              /\ last'.returned
              /\ last'.id \notin mUsedIds
              /\ (str # <<>> /\ str \notin mUsedIds) => last'.id = str
              /\ mUsedIds' = mUsedIds
              /\ ~CreateRejects(AssetState', "buffers", last'.id)]_vars

----------------------------------------------------------------------------
(* Routing of the attribute keys by Mesh::Read, checked under SpecMesh *)

\* C23: every key is routed to the accessor sequence of the semantic it names,
\* for each of the seven semantics: a key JOINTMATRIX or JOINTMATRIX_N sets
\* slot 0 or N of the jointmatrix sequence and leaves the joint sequence as it
\* was; a key that names no semantic, or a value that is no string, changes
\* nothing.
C23_KeysRouted ==
    [][/\ \A sem \in Semantics, n \in -1..MaxSet, ref \in 1..MaxAccessor :
             ReadAttribute(Key(sem, n), TRUE, ref, TRUE) =>
                 /\ Len(attributes'[sem]) > (IF n = -1 THEN 0 ELSE n)
                 /\ attributes'[sem][(IF n = -1 THEN 0 ELSE n) + 1] = ref
                 /\ \A other \in Semantics \ {sem} : attributes'[other] = attributes[other]
       /\ \A attr \in KeyInputs, isString \in BOOLEAN, ref \in 1..MaxAccessor :
             (/\ ReadAttribute(attr, isString, ref, TRUE)
              /\ (~isString \/ \A sem \in Semantics : Compare(attr, sem) = 0)) =>
                 attributes' = attributes]_vars

----------------------------------------------------------------------------
(* Properties of the storage block of a Buffer, checked under Spec *)

\* C24: in every reachable state capacity is the size of the block allocated
\* for the data, also after LoadFromStream and ReplaceData have put a new
\* block in place, and so byteLength is never above capacity.
C24_CapacityIsAllocation ==
    /\ capacity = (IF mData.null THEN 0 ELSE Len(mData.bytes))
    /\ byteLength <= capacity

\* C27: Grow and AppendData never read or write outside the allocated block:
\* when Grow only moves byteLength the block holds byteLength + amount bytes,
\* when it reallocates it copies no more bytes than the old block holds, and
\* AppendData stores its data inside the block.
C27_GrowStaysInsideBlock ==
    last.op \in {"Grow", "AppendData"} =>
        /\ ~last.oob
        /\ last.path = "inplace" => (~mData.null /\ Len(mData.bytes) >= byteLength)

----------------------------------------------------------------------------
(* Properties of the Accessor operations, checked under SpecAccessor *)

\* C25: GetValue<T>(i) returns a T whose leading bytes are the element bytes
\* found at i * stride and whose other bytes are zero; when T is smaller than
\* the element the value is cut to sizeof(T) bytes: the call stores at most
\* sizeof(T) bytes in the result.
C25_GetValueFitsResult ==
    [][\A acc \in AccessorInputs, i \in 0..MaxAmount, sizeofT \in 1..MaxAmount :
          GetValue(acc, i, sizeofT) =>
              /\ last'.copied <= sizeofT
              /\ \A k \in 1..sizeofT :
                    last'.value[k] =
                        IF k <= GetElementSize(acc)
                        THEN Cell(mData.bytes,
                                  acc.byteOffset + acc.viewOffset + i * Stride(acc) + (k - 1))
                        ELSE 0]_vars

\* C26: every reference the writer emits is the id of the object referred to,
\* the entries of Skin.jointNames included: each entry is written as the id of
\* its node, also when the jointName of the node is another string or empty.
\* (Checked under SpecWriter.)
C26_JointNamesWrittenAsIds ==
    [][\A b \in SkinInputs :
          WriteSkin(b) =>
              /\ last'.jointNames = [i \in 1..Len(b.jointNames) |-> b.jointNames[i].id]
              /\ last'.inverseBindMatrices = b.inverseBindMatrices]_vars

\* The objects of the nodes dictionary that carry the id
Instances(objs, id) == {i \in 1..Len(objs) : objs[i].id = id}

\* C28: Get(id) ends for every manifest, also when the objects name each other
\* in a cycle, so that the Read of the object being made asks for the id being
\* read: the recursion ends and one instance is registered for each id.
\* (Checked under SpecCycle.)
C28_GetEndsOnCycles ==
    [][\A id \in Ids :
          Get("nodes", id) =>
              /\ last'.err # "StackOverflow"
              /\ \A x \in Ids : Cardinality(Instances(mObjs'["nodes"], x)) <= 1
              /\ last'.ok => Cardinality(Instances(mObjs'["nodes"], id)) = 1]_vars

\* C29: when the assertion of WriteData(cnt, src, srcStride) holds, every byte
\* the call stores lies in [0, byteLength) of the buffer, for every cnt, also
\* one above the count of the accessor, and the bytes of the buffer outside
\* [offset, offset + cnt * elementSize) stay as they were, where offset is
\* accessor.byteOffset + bufferView.byteOffset.
C29_WriteDataInsideBuffer ==
    [][\A acc \in AccessorInputs, cnt \in 0..MaxAmount, src_stride \in 1..MaxAmount :
          WriteData(acc, cnt, src_stride) =>
              /\ \A o \in last'.writes : o >= 0 /\ o < byteLength
              /\ \A o \in 0..(Len(mData.bytes) - 1) :
                    (\/ o < acc.byteOffset + acc.viewOffset
                     \/ o >= acc.byteOffset + acc.viewOffset + cnt * GetElementSize(acc))
                        => Cell(mData'.bytes, o) = Cell(mData.bytes, o)]_vars

\* C30: when the two assertions of ExtractData hold, every byte it reads lies
\* in the window [bufferView.byteOffset, bufferView.byteOffset + byteLength of
\* the bufferView) of the buffer, for every accessor.byteOffset and byteStride,
\* and element i of the result holds the elementSize bytes found at i * stride
\* from the start of the accessor.
C30_ExtractDataInsideView ==
    [][\A acc \in AccessorInputs, targetElemSize \in 1..MaxAmount :
          (CallExtractData(acc, targetElemSize) /\ last'.ok) =>
              /\ \A o \in last'.reads :
                    o >= acc.viewOffset /\ o < acc.viewOffset + acc.viewLength
              /\ \A i \in 1..acc.count : \A k \in 1..GetElementSize(acc) :
                    last'.outData[i][k] =
                        Cell(mData.bytes,
                             acc.byteOffset + acc.viewOffset + (i - 1) * Stride(acc) + (k - 1))]_vars

====
